---- MODULE Spec2Model ----
(***************************************************************************)
(* CameraMeasureApp (src/src/CameraMeasureApp.tsx): a React component that *)
(* freezes a camera frame, turns clicks on an overlay into segments and    *)
(* angles, calibrates a unit-per-pixel scale and exports the measurements. *)
(*                                                                         *)
(* The state of the model is the component's React state (useState cells)  *)
(* plus the base canvas; one action per event handler.                     *)
(*                                                                         *)
(* Numbers.  A JavaScript number is modelled as an exact fraction <<n, d>> *)
(* in lowest terms with d > 0, and the three IEEE specials as <<1, 0>>     *)
(* (+Infinity), <<-1, 0>> (-Infinity) and <<0, 0>> (NaN).  Rounding of     *)
(* binary floating point and the sign of zero are not modelled.  null is   *)
(* the empty tuple.                                                        *)
(***************************************************************************)
EXTENDS Integers, Sequences, FiniteSets, TLC

VARIABLES
    mode,        \* useState "select" | "measure" | "calibrate" | "angle"
    tempPts,     \* useState Pt[]      : the pending points
    segments,    \* useState Segment[]
    angles,      \* useState Angle[]
    unit,        \* useState "mm" | "cm" | "in"
    unitPerPx,   \* useState number | null : the calibration scale
    isFrozen,    \* useState boolean
    mirror,      \* useState boolean
    showGrid,    \* useState boolean
    showEdges,   \* useState boolean
    video,       \* the frame the <video> element currently shows
    canvas,      \* the base canvas (canvasRef): its size and pixels
    pendMode,    \* history: the mode under which the points of tempPts were clicked
    lastCalib,   \* history: the prompt answer and pixel distance that set unitPerPx
    deviceId,    \* useState string | undefined : the selected camera
    constraints, \* useState MediaStreamConstraints
    effects,     \* the runs of the stream effect, oldest first, each with its
                 \* closure variable stream and the state of its start()
    srcObject,   \* videoRef.current.srcObject: the run whose stream is attached
    streamReady, \* useState boolean
    error        \* useState string | null

vars == <<mode, tempPts, segments, angles, unit, unitPerPx, isFrozen, mirror,
          showGrid, showEdges, video, canvas, pendMode, lastCalib,
          deviceId, constraints, effects, srcObject, streamReady, error>>

streamVars == <<deviceId, constraints, effects, srcObject, streamReady, error>>

-----------------------------------------------------------------------------
(* Bounds of the model *)

\* most segments a behaviour creates before clicks that would add one stop
MaxSegments == 2
\* most angles a behaviour creates
MaxAngles == 1
\* segment and angle bounds of the specification that runs every command
MaxSegmentsAll == 1
MaxAnglesAll == 1
\* largest width and height of a camera frame
MaxDim == 3
\* most runs of the stream effect that request a stream
MaxEffects == 3

-----------------------------------------------------------------------------
(* JavaScript numbers *)

Null == <<>>
NaN == <<0, 0>>
PosInf == <<1, 0>>

Abs(n) == IF n < 0 THEN -n ELSE n
Sign(n) == IF n > 0 THEN 1 ELSE IF n < 0 THEN -1 ELSE 0

RECURSIVE GCD(_, _)
GCD(a, b) == IF b = 0 THEN a ELSE GCD(b, a % b)

Norm(n, d) ==
    IF d = 0 THEN <<Sign(n), 0>>
    ELSE LET s == IF d < 0 THEN -1 ELSE 1
             g == GCD(Abs(n), Abs(d))
         IN  <<(s * n) \div g, (s * d) \div g>>

Num(n) == <<n, 1>>
IsNaN(x) == x = NaN
IsFinite(x) == x[2] # 0

\* x * y
Mul(x, y) == Norm(x[1] * y[1], x[2] * y[2])
\* x / y   (n/0 is an infinity, 0/0 and Infinity/Infinity are NaN)
Div(x, y) == Norm(x[1] * y[2] * (IF y[1] < 0 THEN -1 ELSE 1), x[2] * Abs(y[1]))
\* x < y   (false when either is NaN)
Lt(x, y) ==
    IF IsNaN(x) \/ IsNaN(y) THEN FALSE
    ELSE IF x[2] = 0 /\ y[2] = 0 THEN x[1] < y[1]
    ELSE IF x[2] = 0 THEN x[1] < 0
    ELSE IF y[2] = 0 THEN y[1] > 0
    ELSE x[1] * y[2] < y[1] * x[2]
\* ToBoolean(x) for x a number or null: null, 0 and NaN are falsy
Truthy(x) == x # Null /\ x[1] # 0

RECURSIVE Pow10(_)
Pow10(k) == IF k = 0 THEN 1 ELSE 10 * Pow10(k - 1)

\* Math.sqrt / Math.hypot on the integers the model's points produce: the
\* points are chosen so that every squared distance is a perfect square
ISqrt(n) == CHOOSE r \in 0..n : r * r = n

-----------------------------------------------------------------------------
(* Strings typed by the user are sequences of one-character strings *)

DigitChars == <<"0", "1", "2", "3", "4", "5", "6", "7", "8", "9">>
IsDigit(c) == \E i \in 1..10 : DigitChars[i] = c
DigitVal(c) == (CHOOSE i \in 1..10 : DigitChars[i] = c) - 1
InfinityChars == <<"I", "n", "f", "i", "n", "i", "t", "y">>

RECURSIVE SkipWs(_, _)
SkipWs(s, i) == IF i <= Len(s) /\ s[i] = " " THEN SkipWs(s, i + 1) ELSE i

\* the index after the run of digits that starts at i
RECURSIVE DigitsEnd(_, _)
DigitsEnd(s, i) == IF i <= Len(s) /\ IsDigit(s[i]) THEN DigitsEnd(s, i + 1) ELSE i

\* the value of the digits s[i .. j-1]
RECURSIVE DigitsVal(_, _, _)
DigitsVal(s, i, j) ==
    IF i >= j THEN 0 ELSE DigitsVal(s, i, j - 1) * 10 + DigitVal(s[j - 1])

\* The global parseFloat: skips leading blanks, reads the longest prefix that
\* is a decimal literal (sign, digits, fraction, exponent, or Infinity) and
\* ignores whatever follows; NaN when no prefix is a literal.
\* The result is <<value, index after the literal>>.
parseFloatPrefix(s) ==
    LET i0 == SkipWs(s, 1)
        signed == i0 <= Len(s) /\ s[i0] \in {"+", "-"}
        sg == IF i0 <= Len(s) /\ s[i0] = "-" THEN -1 ELSE 1
        i1 == IF signed THEN i0 + 1 ELSE i0
        isInf == i1 + 7 <= Len(s) /\ SubSeq(s, i1, i1 + 7) = InfinityChars
        i2 == DigitsEnd(s, i1)
        hasDot == i2 <= Len(s) /\ s[i2] = "."
        i3 == IF hasDot THEN DigitsEnd(s, i2 + 1) ELSE i2
        nInt == i2 - i1
        nFrac == IF hasDot THEN i3 - (i2 + 1) ELSE 0
        mEnd == IF hasDot /\ nInt + nFrac > 0 THEN i3 ELSE i2
        mNum == DigitsVal(s, i1, i2) * Pow10(nFrac)
                  + (IF hasDot THEN DigitsVal(s, i2 + 1, i3) ELSE 0)
        hasE == mEnd <= Len(s) /\ s[mEnd] \in {"e", "E"}
        eSigned == hasE /\ mEnd + 1 <= Len(s) /\ s[mEnd + 1] \in {"+", "-"}
        e1 == IF eSigned THEN mEnd + 2 ELSE mEnd + 1
        e2 == DigitsEnd(s, e1)
        expOk == hasE /\ e2 > e1
        ex == DigitsVal(s, e1, e2)
        eNeg == eSigned /\ s[mEnd + 1] = "-"
    IN  IF isInf THEN <<(<<sg, 0>>), i1 + 8>>
        ELSE IF nInt + nFrac = 0 THEN <<NaN, i0>>
        ELSE IF ~expOk THEN <<Norm(sg * mNum, Pow10(nFrac)), mEnd>>
        ELSE IF eNeg THEN <<Norm(sg * mNum, Pow10(nFrac) * Pow10(ex)), e2>>
        ELSE <<Norm(sg * mNum * Pow10(ex), Pow10(nFrac)), e2>>

parseFloat(s) == parseFloatPrefix(s)[1]

-----------------------------------------------------------------------------
(* Geometry *)

Pt(x, y) == [x |-> x, y |-> y]

\* Math.sqrt(dx * dx + dy * dy) and Math.hypot(dx, dy)
hypot(dx, dy) == Num(ISqrt(dx * dx + dy * dy))

dist(a, b) == hypot(a.x - b.x, a.y - b.y)

\* Math.min / Math.max: NaN if either argument is NaN
MathMin(x, y) == IF IsNaN(x) \/ IsNaN(y) THEN NaN ELSE IF Lt(y, x) THEN y ELSE x
MathMax(x, y) == IF IsNaN(x) \/ IsNaN(y) THEN NaN ELSE IF Lt(x, y) THEN y ELSE x

\* The angle at b in degrees is (Math.acos(cos) * 180) / Math.PI, which is
\* no fraction: the model keeps the clamped cosine it is computed from.
\* acos(NaN) is NaN, so the angle is NaN exactly when cosine is NaN.
angleAtVertex(a, b, c) ==
    LET abx == a.x - b.x
        aby == a.y - b.y
        cbx == c.x - b.x
        cby == c.y - b.y
        dot == abx * cbx + aby * cby
        la == hypot(abx, aby)
        lb == hypot(cbx, cby)
        cos == MathMax(Num(-1), MathMin(Num(1), Div(Num(dot), Mul(la, lb))))
    IN  [acosOf |-> cos]

angleIsNaN(v) == IsNaN(v.acosOf)

-----------------------------------------------------------------------------
(* Number formatting *)

Txt(s) == <<"text", s>>

\* n / d rounded to the nearest integer, halves away from zero (d > 0)
RoundDiv(n, d) == Sign(n) * ((2 * Abs(n) + d) \div (2 * d))

\* Number.prototype.toFixed(k): the value rounded to k decimals, kept as the
\* integer value * 10^k; "NaN" and "Infinity" for the specials
toFixed(x, k) ==
    IF IsNaN(x) THEN Txt("NaN")
    ELSE IF ~IsFinite(x) THEN Txt(IF x[1] > 0 THEN "Infinity" ELSE "-Infinity")
    ELSE <<"fixed", RoundDiv(x[1] * Pow10(k), x[2]), k>>

pxToUnit(px) == IF ~Truthy(unitPerPx) THEN Null ELSE Mul(px, unitPerPx)

\* the text of a length label: <<number text, unit>>, or the dash
formatLen(len) ==
    IF len = Null THEN <<Txt("-")>>   \* the en dash
    ELSE LET decimals == IF Lt(len, Num(10)) THEN 3 ELSE 2
         IN  <<toFixed(len, decimals), Txt(unit)>>

\* draw(): the label drawn at the midpoint of segment s
segmentLabel(s) ==
    LET dx == s.b.x - s.a.x
        dy == s.b.y - s.a.y
        pix == hypot(dx, dy)
    IN  formatLen(pxToUnit(pix))

-----------------------------------------------------------------------------
(* Exports: functions of the React state *)

\* JSON.stringify writes a number that is not finite as null
jsonNumber(x) == IF x = Null THEN Null ELSE IF IsFinite(x) THEN x ELSE Null

\* one entry of payload.segments, as JSON.stringify writes it
jsonSegment(s) ==
    [a |-> s.a, b |-> s.b,
     length_px |-> jsonNumber(dist(s.a, s.b)),
     length_unit |-> jsonNumber(IF Truthy(unitPerPx)
                                THEN Mul(dist(s.a, s.b), unitPerPx) ELSE Null)]

jsonAngle(g) ==
    [a |-> g.a, b |-> g.b, c |-> g.c,
     angle_deg |-> LET v == angleAtVertex(g.a, g.b, g.c)
                   IN  IF angleIsNaN(v) THEN Null ELSE v.acosOf]

\* the payload of downloadJSON without its timestamp
jsonPayload ==
    [unit |-> unit,
     unitPerPx |-> jsonNumber(unitPerPx),
     segments |-> [i \in 1..Len(segments) |-> jsonSegment(segments[i])],
     angles |-> [i \in 1..Len(angles) |-> jsonAngle(angles[i])],
     width |-> video.w,
     height |-> video.h]

csvSegmentHeader ==
    <<Txt("type"), Txt("x1"), Txt("y1"), Txt("x2"), Txt("y2"),
      Txt("length_px"), Txt("length_unit"), Txt("unit")>>

csvAngleHeader ==
    <<Txt("type"), Txt("ax"), Txt("ay"), Txt("bx"), Txt("by"),
      Txt("cx"), Txt("cy"), Txt("angle_deg"), Txt("-")>>

csvSegmentRow(s) ==
    <<Txt("segment"),
      toFixed(Num(s.a.x), 2), toFixed(Num(s.a.y), 2),
      toFixed(Num(s.b.x), 2), toFixed(Num(s.b.y), 2),
      toFixed(dist(s.a, s.b), 3),
      IF Truthy(unitPerPx) THEN toFixed(Mul(dist(s.a, s.b), unitPerPx), 3) ELSE Txt(""),
      Txt(unit)>>

\* angle_deg is angleAtVertex(..).toFixed(2): "NaN" for NaN, else the
\* rounding of an arc cosine, kept as the cosine it is computed from
csvAngleRow(g) ==
    <<Txt("angle"),
      toFixed(Num(g.a.x), 2), toFixed(Num(g.a.y), 2),
      toFixed(Num(g.b.x), 2), toFixed(Num(g.b.y), 2),
      toFixed(Num(g.c.x), 2), toFixed(Num(g.c.y), 2),
      LET v == angleAtVertex(g.a, g.b, g.c)
      IN  IF angleIsNaN(v) THEN Txt("NaN") ELSE <<"acosFixed", v.acosOf, 2>>,
      Txt("-")>>

\* mutant: the angle section, header included, is left out when no angle exists
csvRows_SkipsEmptyAngles ==
    <<csvSegmentHeader>>
      \o [i \in 1..Len(segments) |-> csvSegmentRow(segments[i])]
      \o (IF Len(angles) = 0 THEN <<>> ELSE <<csvAngleHeader>>)
      \o [i \in 1..Len(angles) |-> csvAngleRow(angles[i])]

\* the rows of downloadCSV, each a sequence of fields; the document joins the
\* fields of a row with "," and the rows with "\n"
csvRows ==
    <<csvSegmentHeader>>
      \o [i \in 1..Len(segments) |-> csvSegmentRow(segments[i])]
      \o <<csvAngleHeader>>
      \o [i \in 1..Len(angles) |-> csvAngleRow(angles[i])]

-----------------------------------------------------------------------------
(* The base canvas and the edge filter *)

\* pixel coordinates of a w x h image
Pix(w, h) == (0..(w - 1)) \X (0..(h - 1))

\* an image: data[<<x, y>>] is the pixel <<r, g, b, a>>
Image(w, h, d) == [w |-> w, h |-> h, data |-> d]

\* a canvas after its width and height are set: transparent black
Transparent(w, h) == Image(w, h, [p \in Pix(w, h) |-> <<0, 0, 0, 0>>])

gx == <<-1, 0, 1, -2, 0, 2, -1, 0, 1>>
gy == <<-1, -2, -1, 0, 0, 0, 1, 2, 1>>

\* 1000 * (0.299 r + 0.587 g + 0.114 b)
gray1000(px) == 299 * px[1] + 587 * px[2] + 114 * px[3]

\* the sum over the 3 x 3 neighbourhood of (x, y), k running as in the
\* loops of the code: j (rows) outside, i (columns) inside
sobelSum(img, x, y, kern) ==
    LET term(k) == LET j == ((k - 1) \div 3) - 1
                       i == ((k - 1) % 3) - 1
                   IN  gray1000(img.data[<<x + i, y + j>>]) * kern[k]
    IN  term(1) + term(2) + term(3) + term(4) + term(5)
          + term(6) + term(7) + term(8) + term(9)

\* Math.max(0, Math.min(255, sqrt(t) / u)) stored into a Uint8ClampedArray,
\* which rounds to the nearest integer, halves to even
toUint8Clamped(t, u) ==
    LET f == CHOOSE k \in 0..255 :
                 /\ (u * k) * (u * k) <= t
                 /\ (k = 255 \/ (u * (k + 1)) * (u * (k + 1)) > t)
        h == u * u * (2 * f + 1) * (2 * f + 1)
    IN  IF f = 255 THEN 255
        ELSE IF 4 * t > h THEN f + 1
        ELSE IF 4 * t = h THEN (IF f % 2 = 0 THEN f ELSE f + 1)
        ELSE f

\* the value written at an interior pixel: sqrt(sx^2 + sy^2), sx and sy in
\* thousandths, reduced by their common factor before squaring
sobelValue(img, x, y) ==
    LET sx == sobelSum(img, x, y, gx)
        sy == sobelSum(img, x, y, gy)
        g == GCD(GCD(Abs(sx), Abs(sy)), 1000)
    IN  toUint8Clamped((sx \div g) * (sx \div g) + (sy \div g) * (sy \div g),
                       1000 \div g)

\* out is a fresh ImageData (all zero); the loops fill 1 <= x < width - 1,
\* 1 <= y < height - 1; putImageData(out, 0, 0) replaces the whole canvas
applyEdgeFilter(img) ==
    Image(img.w, img.h,
          [p \in Pix(img.w, img.h) |->
              IF /\ 1 <= p[1] /\ p[1] < img.w - 1
                 /\ 1 <= p[2] /\ p[2] < img.h - 1
              THEN LET v == sobelValue(img, p[1], p[2]) IN <<v, v, v, 255>>
              ELSE <<0, 0, 0, 0>>])

\* c.width = v.videoWidth clears the canvas and its transform; with mirror
\* the frame is drawn under translate(width, 0), scale(-1, 1)
drawVideo(v, mir) ==
    Image(v.w, v.h,
          [p \in Pix(v.w, v.h) |->
              IF mir THEN v.data[<<v.w - 1 - p[1], p[2]>>] ELSE v.data[p]])

snapshot(v, mir, edges) ==
    IF edges THEN applyEdgeFilter(drawVideo(v, mir)) ELSE drawVideo(v, mir)

-----------------------------------------------------------------------------
(* Inputs *)

\* surface points a click can land on: (0,0) and (3,4) are 5 pixels apart
Pts == {Pt(0, 0), Pt(3, 4)}

Modes == {"select", "measure", "calibrate", "angle"}
Units == {"mm", "cm", "in"}

\* what prompt() returns: null when cancelled, else the text typed
PromptCancelled == <<"null">>
PromptInputs ==
    { PromptCancelled,
      <<>>,
      <<"a", "b", "c">>,
      <<"0">>,
      <<"-", "2">>,
      <<"2", ".", "5">>,
      <<"2", "m", "m">> }

\* e.target.value of the type="number" scale input: "" or a number's text
ScaleInputs == { <<>>, <<"0">>, <<"-", "1">> }

\* camera frames: opaque gray pixels of two levels
Palette == { <<0, 0, 0, 255>>, <<100, 100, 100, 255>> }
Frames ==
    UNION { { Image(w, h, d) : d \in [Pix(w, h) -> Palette] } :
            <<w, h>> \in (1..MaxDim) \X (1..MaxDim) }

\* the frame of the specifications that do not vary the camera: a 3 x 3
\* frame, dark on the left and light on the right
DefaultFrame ==
    Image(3, 3, [p \in Pix(3, 3) |->
                    IF p[1] = 0 THEN <<0, 0, 0, 255>> ELSE <<100, 100, 100, 255>>])

NoMode == "none"
\* the cameras enumerateDevices() lists, first one first
Devices == <<"cam1", "cam2">>
NoDevice == "undefined"
\* the initial constraints and the ones of the resolution buttons
DefaultConstraints == "1920x1080 environment"
Resolutions == {"1280x720", "1920x1080"}
\* srcObject before any stream is attached
NoStream == 0
NoError == "null"
NoCalib == <<>>

-----------------------------------------------------------------------------
(* Initial state: the useState initial values, the canvas sized to the     *)
(* video by onLoaded and not yet drawn on                                  *)

InitWith(v) ==
    /\ mode = "measure"
    /\ tempPts = <<>>
    /\ segments = <<>>
    /\ angles = <<>>
    /\ unit = "mm"
    /\ unitPerPx = Null
    /\ isFrozen = FALSE
    /\ mirror = FALSE
    /\ showGrid = TRUE
    /\ showEdges = FALSE
    /\ video = v
    /\ canvas = Transparent(v.w, v.h)
    /\ pendMode = NoMode
    /\ lastCalib = NoCalib
    /\ deviceId = NoDevice
    /\ constraints = DefaultConstraints
    /\ effects = <<>>
    /\ srcObject = NoStream
    /\ streamReady = FALSE
    /\ error = NoError

Init == InitWith(DefaultFrame)

InitView == \E v \in Frames : InitWith(v)

-----------------------------------------------------------------------------
(* handleOverlayClick: p is the clicked point in surface coordinates,      *)
(* input is what prompt() returns if the handler asks                      *)

viewVars == <<isFrozen, mirror, showGrid, showEdges, video, canvas>>

\* mutant: the segment is built with its end points swapped
measureClick_Reversed(p) ==
    LET pts == Append(tempPts, p)
    IN  /\ IF Len(pts) = 2
           THEN /\ segments' = Append(segments, [a |-> pts[2], b |-> pts[1]])
                /\ tempPts' = <<>>
                /\ pendMode' = NoMode
           ELSE /\ tempPts' = pts
                /\ pendMode' = mode
                /\ UNCHANGED segments
        /\ UNCHANGED <<angles, unitPerPx, lastCalib>>

measureClick(p) ==
    LET pts == Append(tempPts, p)
    IN  /\ IF Len(pts) = 2
           THEN /\ segments' = Append(segments, [a |-> pts[1], b |-> pts[2]])
                /\ tempPts' = <<>>
                /\ pendMode' = NoMode
           ELSE /\ tempPts' = pts
                /\ pendMode' = mode
                /\ UNCHANGED segments
        /\ UNCHANGED <<angles, unitPerPx, lastCalib>>

\* mutant: pixels per unit instead of units per pixel
calibrationScale_Inverted(val, pix) == Div(pix, val)

\* setUnitPerPx(val / pix)
calibrationScale(val, pix) == Div(val, pix)

calibrateClick(p, input) ==
    LET pts == Append(tempPts, p)
    IN  /\ IF Len(pts) = 2
           THEN LET dx == pts[2].x - pts[1].x
                    dy == pts[2].y - pts[1].y
                    pix == hypot(dx, dy)
                    val == parseFloat(input)
                IN  /\ IF /\ input # PromptCancelled /\ input # <<>>
                          /\ ~IsNaN(val) /\ Lt(Num(0), val)
                       THEN /\ unitPerPx' = calibrationScale(val, pix)
                            /\ lastCalib' = <<input, pix>>
                       ELSE UNCHANGED <<unitPerPx, lastCalib>>
                    /\ tempPts' = <<>>
                    /\ pendMode' = NoMode
           ELSE /\ tempPts' = pts
                /\ pendMode' = mode
                /\ UNCHANGED <<unitPerPx, lastCalib>>
        /\ UNCHANGED <<segments, angles>>

angleClick(p) ==
    LET pts == Append(tempPts, p)
    IN  /\ IF Len(pts) = 3
           THEN /\ angles' = Append(angles, [a |-> pts[1], b |-> pts[2], c |-> pts[3]])
                /\ tempPts' = <<>>
                /\ pendMode' = NoMode
           ELSE /\ tempPts' = pts
                /\ pendMode' = mode
                /\ UNCHANGED angles
        /\ UNCHANGED <<segments, unitPerPx, lastCalib>>

handleOverlayClick(p, input) ==
    /\ UNCHANGED <<mode, unit>>
    /\ UNCHANGED viewVars
    /\ UNCHANGED streamVars
    /\ IF mode = "measure" THEN measureClick(p)
       ELSE IF mode = "calibrate" THEN calibrateClick(p, input)
       ELSE IF mode = "angle" THEN angleClick(p)
       ELSE UNCHANGED <<tempPts, segments, angles, unitPerPx, pendMode, lastCalib>>

-----------------------------------------------------------------------------
(* Mode buttons *)

startCalibrate ==
    /\ mode' = "calibrate"
    /\ tempPts' = <<>>
    /\ pendMode' = NoMode
    /\ UNCHANGED <<segments, angles, unit, unitPerPx, lastCalib>>
    /\ UNCHANGED viewVars
    /\ UNCHANGED streamVars

\* mutant: the switch to Measure forgets setTempPts([])
startMeasure_KeepsPending ==
    /\ mode' = "measure"
    /\ UNCHANGED <<tempPts, pendMode>>
    /\ UNCHANGED <<segments, angles, unit, unitPerPx, lastCalib>>
    /\ UNCHANGED viewVars
    /\ UNCHANGED streamVars

startMeasure ==
    /\ mode' = "measure"
    /\ tempPts' = <<>>
    /\ pendMode' = NoMode
    /\ UNCHANGED <<segments, angles, unit, unitPerPx, lastCalib>>
    /\ UNCHANGED viewVars
    /\ UNCHANGED streamVars

\* mutant: the switch to Angle forgets setTempPts([])
startAngle_KeepsPending ==
    /\ mode' = "angle"
    /\ UNCHANGED <<tempPts, pendMode>>
    /\ UNCHANGED <<segments, angles, unit, unitPerPx, lastCalib>>
    /\ UNCHANGED viewVars
    /\ UNCHANGED streamVars

startAngle ==
    /\ mode' = "angle"
    /\ tempPts' = <<>>
    /\ pendMode' = NoMode
    /\ UNCHANGED <<segments, angles, unit, unitPerPx, lastCalib>>
    /\ UNCHANGED viewVars
    /\ UNCHANGED streamVars

-----------------------------------------------------------------------------
(* Frame buttons and view checkboxes *)

modelVars == <<mode, tempPts, segments, angles, unit, unitPerPx, pendMode, lastCalib>>

snapshotToCanvas == canvas' = snapshot(video, mirror, showEdges)

freeze ==
    /\ snapshotToCanvas
    /\ isFrozen' = TRUE
    /\ UNCHANGED <<mirror, showGrid, showEdges, video>>
    /\ UNCHANGED modelVars
    /\ UNCHANGED streamVars

resume ==
    /\ isFrozen' = FALSE
    /\ UNCHANGED <<mirror, showGrid, showEdges, video, canvas>>
    /\ UNCHANGED modelVars
    /\ UNCHANGED streamVars

\* "Atualizar frame": snapshotToCanvas(); draw()
refreshFrame ==
    /\ snapshotToCanvas
    /\ UNCHANGED <<isFrozen, mirror, showGrid, showEdges, video>>
    /\ UNCHANGED modelVars
    /\ UNCHANGED streamVars

\* checkboxes: e.target.checked is the negation of the value shown
onChangeMirror ==
    /\ mirror' = ~mirror
    /\ UNCHANGED <<isFrozen, showGrid, showEdges, video, canvas>>
    /\ UNCHANGED modelVars
    /\ UNCHANGED streamVars

onChangeShowGrid ==
    /\ showGrid' = ~showGrid
    /\ UNCHANGED <<isFrozen, mirror, showEdges, video, canvas>>
    /\ UNCHANGED modelVars
    /\ UNCHANGED streamVars

onChangeShowEdges ==
    /\ showEdges' = ~showEdges
    /\ UNCHANGED <<isFrozen, mirror, showGrid, video, canvas>>
    /\ UNCHANGED modelVars
    /\ UNCHANGED streamVars

-----------------------------------------------------------------------------
(* Clearing, unit and scale *)

\* mutant: clearing the measurements also drops the calibration
clearMeasurements_DropsScale ==
    /\ segments' = <<>>
    /\ angles' = <<>>
    /\ tempPts' = <<>>
    /\ pendMode' = NoMode
    /\ unitPerPx' = Null
    /\ lastCalib' = NoCalib
    /\ UNCHANGED <<mode, unit>>
    /\ UNCHANGED viewVars
    /\ UNCHANGED streamVars

\* "Limpar medicoes"
clearMeasurements ==
    /\ segments' = <<>>
    /\ angles' = <<>>
    /\ tempPts' = <<>>
    /\ pendMode' = NoMode
    /\ UNCHANGED <<mode, unit, unitPerPx, lastCalib>>
    /\ UNCHANGED viewVars
    /\ UNCHANGED streamVars

\* "Resetar tudo"
clearAll ==
    /\ segments' = <<>>
    /\ angles' = <<>>
    /\ tempPts' = <<>>
    /\ pendMode' = NoMode
    /\ unitPerPx' = Null
    /\ lastCalib' = NoCalib
    /\ UNCHANGED <<mode, unit>>
    /\ UNCHANGED viewVars
    /\ UNCHANGED streamVars

onChangeUnit(u) ==
    /\ unit' = u
    /\ UNCHANGED <<mode, tempPts, segments, angles, unitPerPx, pendMode, lastCalib>>
    /\ UNCHANGED viewVars
    /\ UNCHANGED streamVars

\* the scale input: setUnitPerPx(value === '' ? null : parseFloat(value))
onChangeScale(value) ==
    /\ unitPerPx' = IF value = <<>> THEN Null ELSE parseFloat(value)
    /\ lastCalib' = NoCalib
    /\ UNCHANGED <<mode, tempPts, segments, angles, unit, pendMode>>
    /\ UNCHANGED viewVars
    /\ UNCHANGED streamVars

-----------------------------------------------------------------------------
(* Exports: each builds a file from the state and changes none of it *)

\* the flattened base canvas and overlay
downloadPNG == UNCHANGED vars
\* the file is jsonPayload (and a timestamp)
downloadJSON == UNCHANGED vars
\* the file is csvRows
downloadCSV == UNCHANGED vars

-----------------------------------------------------------------------------
(* The camera stream.  The stream effect runs again whenever deviceId or   *)
(* constraints change: React first runs the cleanup of the previous run,   *)
(* then the new run calls start(), which suspends at getUserMedia and at   *)
(* play.  Each run has its own closure variable stream, null until its     *)
(* getUserMedia resolves.                                                  *)

\* the cleanup of the latest run: if (stream) stop its tracks
cleanup(es) ==
    IF es = <<>> THEN es
    ELSE [es EXCEPT ![Len(es)].stopped = es[Len(es)].stopped \/ es[Len(es)].stream]

\* start() up to its first await: nothing without a deviceId, else a
\* getUserMedia request for device d under constraints c
start(es, d, c) ==
    IF d = NoDevice THEN es
    ELSE Append(es, [deviceId |-> d, constraints |-> c,
                     phase |-> "getUserMedia", stream |-> FALSE, stopped |-> FALSE])

\* the stream effect on a change of its dependencies to d and c
streamEffect(d, c) ==
    /\ d # NoDevice => Len(effects) < MaxEffects
    /\ effects' = start(cleanup(effects), d, c)

\* the init effect, when enumerateDevices() resolves on the first render:
\* the first camera becomes the selection
init ==
    /\ deviceId = NoDevice
    /\ deviceId' = Devices[1]
    /\ streamEffect(Devices[1], constraints)
    /\ UNCHANGED <<constraints, srcObject, streamReady, error>>
    /\ UNCHANGED modelVars
    /\ UNCHANGED viewVars

\* the device select, which lists the cameras once they are enumerated
onChangeDevice(d) ==
    /\ deviceId # NoDevice
    /\ d # deviceId
    /\ deviceId' = d
    /\ streamEffect(d, constraints)
    /\ UNCHANGED <<constraints, srcObject, streamReady, error>>
    /\ UNCHANGED modelVars
    /\ UNCHANGED viewVars

\* a resolution button: a new constraints object, even for the same size
onClickResolution(c) ==
    /\ constraints' = c
    /\ streamEffect(deviceId, c)
    /\ UNCHANGED <<deviceId, srcObject, streamReady, error>>
    /\ UNCHANGED modelVars
    /\ UNCHANGED viewVars

\* getUserMedia of run i resolves: stream = ...; srcObject = stream; play()
getUserMediaResolved(i) ==
    /\ effects[i].phase = "getUserMedia"
    /\ effects' = [effects EXCEPT ![i].stream = TRUE, ![i].phase = "play"]
    /\ srcObject' = i
    /\ UNCHANGED <<deviceId, constraints, streamReady, error>>
    /\ UNCHANGED modelVars
    /\ UNCHANGED viewVars

\* getUserMedia of run i rejects: catch, setError
getUserMediaRejected(i) ==
    /\ effects[i].phase = "getUserMedia"
    /\ effects' = [effects EXCEPT ![i].phase = "caught"]
    /\ error' = "Falha ao acessar camera"
    /\ UNCHANGED <<deviceId, constraints, srcObject, streamReady>>
    /\ UNCHANGED modelVars
    /\ UNCHANGED viewVars

\* play() of run i resolves: setStreamReady(true)
playResolved(i) ==
    /\ effects[i].phase = "play"
    /\ effects' = [effects EXCEPT ![i].phase = "done"]
    /\ streamReady' = TRUE
    /\ UNCHANGED <<deviceId, constraints, srcObject, error>>
    /\ UNCHANGED modelVars
    /\ UNCHANGED viewVars

\* play() of run i rejects: catch, setError
playRejected(i) ==
    /\ effects[i].phase = "play"
    /\ effects' = [effects EXCEPT ![i].phase = "caught"]
    /\ error' = "Falha ao acessar camera"
    /\ UNCHANGED <<deviceId, constraints, srcObject, streamReady>>
    /\ UNCHANGED modelVars
    /\ UNCHANGED viewVars

-----------------------------------------------------------------------------
(* Specifications *)

\* prompt() is called only by the click that completes a calibration pair
Prompts == IF mode = "calibrate" /\ Len(tempPts) = 1 THEN PromptInputs ELSE {PromptCancelled}

\* a click, stopped once the lists are as long as the bounds allow
Click ==
    \E p \in Pts, input \in Prompts :
        /\ handleOverlayClick(p, input)
        /\ Len(segments') <= MaxSegments
        /\ Len(angles') <= MaxAngles

\* under SpecAll measurement clicks land on one point, calibration clicks on
\* either, and the lists are shorter
Origin == Pt(0, 0)
ClickAll ==
    \E p \in (IF mode = "calibrate" THEN Pts ELSE {Origin}), input \in Prompts :
        /\ handleOverlayClick(p, input)
        /\ Len(segments') <= MaxSegmentsAll
        /\ Len(angles') <= MaxAnglesAll

UnitChange == \E u \in Units : onChangeUnit(u)
ScaleChange == \E value \in ScaleInputs : onChangeScale(value)

\* the measurement session: every command but the three view checkboxes
Next ==
    \/ Click
    \/ startCalibrate
    \/ startMeasure
    \/ startAngle
    \/ freeze
    \/ resume
    \/ refreshFrame
    \/ clearMeasurements
    \/ clearAll
    \/ UnitChange
    \/ ScaleChange
    \/ downloadPNG
    \/ downloadJSON
    \/ downloadCSV

Spec == Init /\ [][Next]_vars

\* the frame and the view, over every camera frame
NextView ==
    \/ freeze
    \/ resume
    \/ refreshFrame
    \/ onChangeMirror
    \/ onChangeShowGrid
    \/ onChangeShowEdges
    \/ downloadPNG

SpecView == InitView /\ [][NextView]_vars

\* every command on the measurement and the view, under the smaller list bounds
NextAll ==
    \/ ClickAll
    \/ startCalibrate
    \/ startMeasure
    \/ startAngle
    \/ freeze
    \/ resume
    \/ refreshFrame
    \/ onChangeMirror
    \/ onChangeShowGrid
    \/ onChangeShowEdges
    \/ clearMeasurements
    \/ clearAll
    \/ UnitChange
    \/ ScaleChange
    \/ downloadPNG
    \/ downloadJSON
    \/ downloadCSV

SpecAll == Init /\ [][NextAll]_vars

\* the camera stream: selections and the completions of start()
DeviceChange == \E d \in {Devices[k] : k \in DOMAIN Devices} : onChangeDevice(d)
ResolutionClick == \E c \in Resolutions : onClickResolution(c)
GetUserMediaResolves == \E i \in DOMAIN effects : getUserMediaResolved(i)
GetUserMediaRejects == \E i \in DOMAIN effects : getUserMediaRejected(i)
PlayResolves == \E i \in DOMAIN effects : playResolved(i)
PlayRejects == \E i \in DOMAIN effects : playRejected(i)

NextStream ==
    \/ init
    \/ DeviceChange
    \/ ResolutionClick
    \/ GetUserMediaResolves
    \/ GetUserMediaRejects
    \/ PlayResolves
    \/ PlayRejects

SpecStream == Init /\ [][NextStream]_vars

-----------------------------------------------------------------------------
(* Properties *)

\* (Prompts is every answer when the click prompts, and one value, which the
\* handler does not read, when it does not)
AnyClick == \E p \in Pts, input \in Prompts : handleOverlayClick(p, input)
ModeSwitch == startMeasure \/ startAngle \/ startCalibrate

\* C1: a mode switch empties the pending buffer, so the pending points were
\* all clicked under the current mode, and a segment or an angle that a click
\* completes is made of exactly those points, in click order, and the
\* clicked point; completing an angle creates no segment.
C1_SwitchClearsPending ==
    [][ /\ (ModeSwitch \/ mode' # mode) => tempPts' = <<>>
        /\ tempPts' # <<>> => pendMode' = mode'
        /\ Len(angles') > Len(angles) =>
              /\ pendMode = "angle" /\ mode = "angle" /\ Len(tempPts) = 2
              /\ segments' = segments
              /\ \E p \in Pts : angles' = Append(angles,
                      [a |-> tempPts[1], b |-> tempPts[2], c |-> p])
        /\ Len(segments') > Len(segments) =>
              /\ pendMode = "measure" /\ mode = "measure" /\ Len(tempPts) = 1
              /\ angles' = angles
              /\ \E p \in Pts : segments' = Append(segments,
                      [a |-> tempPts[1], b |-> p])
      ]_vars

\* C1 witness: an angle made in Angle mode while no segment exists, its
\* points clicked in the order (3,4), (0,0), (3,4)
C1_Witness ==
    /\ mode = "angle" /\ tempPts = <<>> /\ segments = <<>>
    /\ angles = << [a |-> Pt(3, 4), b |-> Pt(0, 0), c |-> Pt(3, 4)] >>

\* C2: a click changes segments, angles or the pending buffer only while the
\* frame is frozen.
C2_ClicksOnlyWhenFrozen ==
    [][ (AnyClick /\ ~isFrozen) => UNCHANGED <<segments, angles, tempPts>> ]_vars

\* C3: no angle of the model has an arm of length zero (a = b or c = b).
C3_NoDegenerateAngle ==
    \A i \in 1..Len(angles) :
        /\ angles[i].a # angles[i].b
        /\ angles[i].c # angles[i].b
        /\ ~angleIsNaN(angleAtVertex(angles[i].a, angles[i].b, angles[i].c))

\* the whole text is a decimal number
IsNumericText(s) ==
    /\ s # PromptCancelled
    /\ ~IsNaN(parseFloatPrefix(s)[1])
    /\ parseFloatPrefix(s)[2] = Len(s) + 1

ValidLengthText(s) == IsNumericText(s) /\ Lt(Num(0), parseFloat(s))

\* C4: a click that completes a calibration pair and is answered with a
\* text that is no number, a number <= 0, or nothing, leaves scale, unit,
\* segments and angles as they were.
C4_InvalidLengthRejected ==
    [][ \A p \in Pts, input \in PromptInputs :
          ( /\ mode = "calibrate" /\ Len(tempPts) = 1
            /\ ~ValidLengthText(input)
            /\ handleOverlayClick(p, input) )
          => UNCHANGED <<unitPerPx, unit, segments, angles>> ]_vars

\* a click completes a calibration pair and the prompt is answered
CalibrateCompletes ==
    /\ mode = "calibrate" /\ Len(tempPts) = 1
    /\ \E p \in Pts, input \in PromptInputs \ {PromptCancelled, <<>>} :
          handleOverlayClick(p, input)

\* the commands C5 lists as leaving the scale alone, resetAll aside
OtherCommands ==
    \/ (AnyClick /\ ~CalibrateCompletes)
    \/ ModeSwitch
    \/ UnitChange
    \/ onChangeShowGrid \/ onChangeShowEdges
    \/ freeze \/ resume \/ refreshFrame
    \/ clearMeasurements
    \/ downloadPNG \/ downloadJSON \/ downloadCSV

\* C5 as stated: the scale changes only by a completed calibration or by the
\* scale input, and every other command, resetAll included, leaves it.
C5_ScaleOnlyByCalibrationOrOverride ==
    [][ /\ unitPerPx' # unitPerPx => (CalibrateCompletes \/ ScaleChange)
        /\ unitPerPx' = unitPerPx \/ ~(OtherCommands \/ clearAll) ]_vars

\* C5 amended: the scale changes only by a completed calibration, by the
\* scale input, or by resetAll, which sets it to null; every other command
\* leaves it.
C5_ScaleWriters ==
    [][ /\ unitPerPx' # unitPerPx => (CalibrateCompletes \/ ScaleChange \/ clearAll)
        /\ unitPerPx' = unitPerPx \/ ~OtherCommands
        /\ clearAll => unitPerPx' = Null ]_vars

\* C5 witness: a calibration has set the scale to 1/2 and a segment exists
C5_Witness ==
    /\ lastCalib # NoCalib /\ unitPerPx = <<1, 2>>
    /\ Len(segments) = 1 /\ ~showGrid /\ isFrozen

\* C6: every segment's label, JSON length and CSV length is pixel length
\* times scale when the scale is not null, and the explicit "unavailable"
\* (dash, null, empty field) when it is null.
C6_LengthsUseScale ==
    \A i \in 1..Len(segments) :
        LET s == segments[i]
            px == dist(s.a, s.b)
        IN  IF unitPerPx # Null
            THEN LET len == Mul(px, unitPerPx)
                 IN  /\ segmentLabel(s) = formatLen(len)
                     /\ jsonSegment(s).length_unit = len
                     /\ jsonPayload.unitPerPx = unitPerPx
                     /\ csvSegmentRow(s)[7] = toFixed(len, 3)
            ELSE /\ segmentLabel(s) = <<Txt("-")>>
                 /\ jsonSegment(s).length_unit = Null
                 /\ csvSegmentRow(s)[7] = Txt("")

\* C7: after a calibration pair at pixel distance D > 0 answered with a
\* length L > 0, the scale is L / D and every segment of pixel length D
\* reports L in its label, in the JSON export and in the CSV export.
C7_CalibrationRoundTrip ==
    lastCalib # NoCalib =>
        LET L == parseFloat(lastCalib[1])
            D == lastCalib[2]
        IN  (Lt(Num(0), D) /\ IsFinite(L) /\ Lt(Num(0), L)) =>
              /\ unitPerPx = Div(L, D)
              /\ \A i \in 1..Len(segments) :
                    dist(segments[i].a, segments[i].b) = D =>
                      /\ jsonSegment(segments[i]).length_unit = L
                      /\ csvSegmentRow(segments[i])[7] = toFixed(L, 3)
                      /\ segmentLabel(segments[i]) = formatLen(L)

\* C7 witness: calibrated with "2.5" over 5 pixels (scale 1/2) and a segment
\* of 5 pixels exists
C7_Witness ==
    /\ lastCalib = << <<"2", ".", "5">>, Num(5) >>
    /\ unitPerPx = <<1, 2>>
    /\ Len(segments) >= 1
    /\ dist(segments[1].a, segments[1].b) = Num(5)

\* C8: the CSV rows are the segment header, one row per segment in list
\* order, the angle header, one row per angle in list order: 2 + |segments|
\* + |angles| rows, both headers present even when a list is empty.
C8_CsvLayout ==
    LET rows == csvRows
        ns == Len(segments)
        na == Len(angles)
    IN  /\ Len(rows) = 2 + ns + na
        /\ rows[1] = csvSegmentHeader
        /\ rows[ns + 2] = csvAngleHeader
        /\ \A i \in 1..ns :
              /\ rows[1 + i][1] = Txt("segment")
              /\ Len(rows[1 + i]) = 8
              /\ rows[1 + i][2] = toFixed(Num(segments[i].a.x), 2)
              /\ rows[1 + i][3] = toFixed(Num(segments[i].a.y), 2)
              /\ rows[1 + i][4] = toFixed(Num(segments[i].b.x), 2)
              /\ rows[1 + i][5] = toFixed(Num(segments[i].b.y), 2)
        /\ \A j \in 1..na :
              /\ rows[ns + 2 + j][1] = Txt("angle")
              /\ Len(rows[ns + 2 + j]) = 9
              /\ rows[ns + 2 + j][2] = toFixed(Num(angles[j].a.x), 2)
              /\ rows[ns + 2 + j][3] = toFixed(Num(angles[j].a.y), 2)
              /\ rows[ns + 2 + j][4] = toFixed(Num(angles[j].b.x), 2)
              /\ rows[ns + 2 + j][5] = toFixed(Num(angles[j].b.y), 2)
              /\ rows[ns + 2 + j][6] = toFixed(Num(angles[j].c.x), 2)
              /\ rows[ns + 2 + j][7] = toFixed(Num(angles[j].c.y), 2)

\* C8 witness: one segment and no angle
C8_Witness == Len(segments) = 1 /\ angles = <<>> /\ Len(csvRows) = 3

\* C9: a snapshot taken with the edge filter on leaves every pixel of the
\* outermost ring as the frame drew it, and sets every interior pixel to the
\* clamped Sobel magnitude with alpha 255.
C9_BorderUntouched ==
    [][ ((freeze \/ refreshFrame) /\ showEdges) =>
          LET before == drawVideo(video, mirror)
          IN  \A p \in Pix(before.w, before.h) :
                IF /\ 1 <= p[1] /\ p[1] < before.w - 1
                   /\ 1 <= p[2] /\ p[2] < before.h - 1
                THEN canvas'.data[p] =
                       LET v == sobelValue(before, p[1], p[2]) IN <<v, v, v, 255>>
                ELSE canvas'.data[p] = before.data[p] ]_vars

\* C10: a click changes the segment list only in Measure mode with one
\* pending point and the angle list only in Angle mode with two; it then
\* appends one entity, made of the pending points and the clicked point, and
\* empties the buffer.  Whatever the command, the lists either keep every
\* entity in place (gaining at most one at the end) or are both emptied.
C10_CreationOnBufferFull ==
    [][ /\ \A p \in Pts, input \in Prompts :
              handleOverlayClick(p, input) =>
                IF mode = "measure" /\ Len(tempPts) = 1
                THEN /\ segments' = Append(segments, [a |-> tempPts[1], b |-> p])
                     /\ angles' = angles
                     /\ tempPts' = <<>>
                ELSE IF mode = "angle" /\ Len(tempPts) = 2
                THEN /\ angles' = Append(angles,
                            [a |-> tempPts[1], b |-> tempPts[2], c |-> p])
                     /\ segments' = segments
                     /\ tempPts' = <<>>
                ELSE /\ segments' = segments
                     /\ angles' = angles
        /\ \/ (segments' = <<>> /\ angles' = <<>> /\ tempPts' = <<>>
                 /\ (clearMeasurements \/ clearAll))
           \/ /\ Len(segments') \in {Len(segments), Len(segments) + 1}
              /\ Len(angles') \in {Len(angles), Len(angles) + 1}
              /\ SubSeq(segments', 1, Len(segments)) = segments
              /\ SubSeq(angles', 1, Len(angles)) = angles
      ]_vars

\* C10 witness: two segments and an angle have been created
C10_Witness ==
    /\ Len(segments) = 2 /\ Len(angles) = 1
    /\ segments[1] # segments[2]
    /\ tempPts = <<>>

\* the number of points the active mode needs to complete an entity
Arity(m) ==
    IF m \in {"measure", "calibrate"} THEN 2
    ELSE IF m = "angle" THEN 3
    ELSE 1

\* C11: in every reachable state the pending buffer holds fewer points than
\* the arity of the active mode: at most 1 in Measure and Calibrate, at most
\* 2 in Angle, none in Select.
C11_PendingBelowArity == Len(tempPts) <= Arity(mode) - 1

\* Angle mode with two pending points: the buffer at its largest
C11_Witness == mode = "angle" /\ Len(tempPts) = 2 /\ Len(segments) = 1

\* the scale takes a new, non-null value: a calibration or an override
ScaleSet == unitPerPx' # unitPerPx /\ unitPerPx' # Null

\* C12: when the scale changes to a new value s2, by calibration or by
\* override, every existing segment keeps its end points and pixel length D
\* and from then on reports D * s2 in its label, in the JSON and in the CSV.
C12_LiveRescale ==
    [][ ScaleSet =>
          /\ segments' = segments
          /\ \A i \in 1..Len(segments) :
                LET s == segments[i]
                    D == dist(s.a, s.b)
                    len == Mul(D, unitPerPx')
                IN  /\ segmentLabel(s)' = formatLen(len)
                    /\ jsonSegment(s)'.length_px = D
                    /\ jsonSegment(s)'.length_unit = len
                    /\ csvSegmentRow(s)'[6] = toFixed(D, 3)
                    /\ csvSegmentRow(s)'[7] = toFixed(len, 3) ]_vars

\* C13: in every reachable state the calibration scale is null or a finite
\* number strictly greater than 0.
C13_ScaleNullOrPositive ==
    unitPerPx = Null \/ (IsFinite(unitPerPx) /\ Lt(Num(0), unitPerPx))

\* no getUserMedia request is outstanding
AllResolved == \A i \in DOMAIN effects : effects[i].phase # "getUserMedia"

\* C14: once every pending acquisition has resolved, each stream acquired
\* by a superseded run of the effect has had its tracks stopped, and if the
\* latest run acquired a stream, that stream is the video's source.
C14_SupersededStreamsStopped ==
    AllResolved =>
        /\ \A i \in 1..(Len(effects) - 1) :
              effects[i].stream => effects[i].stopped
        /\ (effects # <<>> /\ effects[Len(effects)].stream) =>
              srcObject = Len(effects)

====
